---- MODULE Spec2Model ----
(***************************************************************************)
(* DatabaseConnectionManager (src/src/database/connection_manager.py):     *)
(* the per-node connection pools, the health/weight state, the read/write  *)
(* routing and the health prober, run by cooperatively scheduled tasks.    *)
(* A task is suspended only at an await; everything between two awaits is  *)
(* one atomic step.                                                        *)
(*                                                                         *)
(* Weights are kept in fifths (1.2 -> 6, 1.0 -> 5, 0.8 -> 4, 0 -> 0),      *)
(* response times in milliseconds, the clock in seconds.                   *)
(***************************************************************************)
EXTENDS Integers, Naturals, Sequences, FiniteSets, Bags, TLC

\* ------------------------------------------------------------------ bounds
\* Longest candidate list _weighted_random_selection is applied to on its own.
MaxCands == 3
\* The clock advances in steps of TickLen seconds up to MaxTime.
TickLen == 30
MaxTime == 60
\* Leases held by abandoned get_any_connection generators at one time.
MaxOrphans == 1
\* Longest list of node configurations the constructor is applied to.
MaxConfigs == 4
\* Cases of the read-after-write test (test_cases = 20 in the source).
test_cases == 2
\* Cases of the lag test (range(10) in the source).
lag_cases == 2
\* The clock of the suite runs stops after MaxClock half seconds.
MaxClock == 4

\* --------------------------------------------------------------- constants
\* self.health_check_interval = 30
health_check_interval == 30

\* The asyncio tasks that call the manager: a caller, which may run any
\* operation, and a health prober, which runs health_check only.
Caller == "caller"
Prober == "prober"
Tasks == {Caller, Prober}
\* The db_configs the manager is constructed with: [Master, Slave1, Slave2].
ConfiguredNodes == <<"Master", "Slave1", "Slave2">>
\* len(self.slave_configs)
NumSlaves == Len(ConfiguredNodes) - 1
\* f"slave_{i}" for i = 1, 2, ...
SlaveNames == <<"slave_1", "slave_2", "slave_3", "slave_4">>
\* server_name = "master" if i == 0 else f"slave_{i}"   (i is 0-based)
server_name(i) == IF i = 0 THEN "master" ELSE SlaveNames[i]
\* self.db_configs: the primary first, then the replicas; indices 0..NumSlaves
db_configs == 0..NumSlaves
\* self.slave_configs = db_configs[1:]; enumerate() index i is 0-based
slave_configs == 0..(NumSlaves - 1)
Nodes == {server_name(i) : i \in db_configs}
Slaves == {server_name(i) : i \in 1..NumSlaves}
\* slave_index = int(server_name.split("_")[1]) - 1     (0-based)
slave_index(name) == (CHOOSE i \in 1..Len(SlaveNames) : SlaveNames[i] = name) - 1
\* server_name.startswith("slave_")
is_slave(name) == \E i \in 1..Len(SlaveNames) : SlaveNames[i] = name

VARIABLES
    connection_pools,   \* dict keys in insertion order: the nodes that have a pool
    server_health,      \* dict: node -> bool (a node may have no entry)
    slave_weights,      \* list of weights, 0-based index i kept at position i+1
    last_health_check,  \* self.last_health_check
    now,                \* time.time()
    leased,             \* node -> connections of its pool currently leased
    orphans,            \* primary connections held by abandoned generators
    task,               \* task -> the call it runs: position and locals
    unforced_pass,      \* current_time of the latest pass of a force=False call
    probe_failed,       \* replica -> "yes" since a failed probe of it, until a
                        \* probe of it succeeds; "recreated" once its pool was
                        \* created again in between; else "no"
    sel_in,             \* weighted selection on its own: the candidate list
    sel_r,              \* weighted selection on its own: the draw
    sel_out,            \* weighted selection on its own: the result
    tier,               \* one probe on its own: its node, latencies and state
    ctor,               \* the constructor on its own: its argument and result
    verify,             \* _read_and_verify on its own: arguments, replica, result
    raw,                \* the read-after-write test: position, observations, log
    ids,                \* the canary ids of suite runs: clock, runs, ids issued
    lag,                \* the lag test: position, times, samples
    failover,           \* the failover simulation: position, times, result
    classify,           \* the failover report on its own: inputs and result
    capacity,           \* the capacity probe: position, attempts, results
    load                \* the long-running load test: position, counters

mgr == <<connection_pools, server_health, slave_weights, last_health_check>>
pool_state == <<leased, orphans>>
hist == <<unforced_pass, probe_failed>>
sel_vars == <<sel_in, sel_r, sel_out>>
suite_vars == <<tier, ctor, verify, raw, ids, lag, failover, classify,
                capacity, load>>
vars == <<mgr, now, pool_state, task, hist, sel_vars, suite_vars>>

\* ----------------------------------------------------------------- helpers
EmptyDict == [n \in {} |-> FALSE]
\* d[k] = v on a dict
DictPut(d, k, v) == [n \in (DOMAIN d) \cup {k} |-> IF n = k THEN v ELSE d[n]]
\* d.get(k, False)
DictGet(d, k) == IF k \in DOMAIN d THEN d[k] ELSE FALSE
SeqRange(s) == {s[i] : i \in 1..Len(s)}
\* self.connection_pools[k] = pool: a new key goes last, an old key keeps its place
PoolPut(keys, k) == IF k \in SeqRange(keys) THEN keys ELSE Append(keys, k)
\* server_name in self.connection_pools
has_pool(name) == name \in SeqRange(connection_pools)

\* A task that runs no call: o is the call it ran last, res how that ended
\* and w whether it logged the degraded-mode warning.
IdleTask(o, res, w) ==
    [pc |-> "idle", op |-> o, outcome |-> res, warned |-> w, conn |-> "none",
     via |-> "none", prefer |-> "none", force |-> FALSE, current_time |-> 0,
     pos |-> 0, used |-> 0, cur |-> "none", probed |-> {}]

\* -------------------------------------------------------------------- Init
\* __init__: no pools, no health entries, every replica weight 1.0,
\* last_health_check = 0.  time.time() is epoch time, far more than one
\* interval after 0; the clock starts one interval after it.
ManagerInit ==
    /\ connection_pools = <<>>
    /\ server_health = EmptyDict
    /\ slave_weights = [i \in 1..NumSlaves |-> 5]
    /\ last_health_check = 0
    /\ now = health_check_interval
    /\ leased = [n \in Nodes |-> 0]
    /\ orphans = 0
    /\ task = [t \in Tasks |-> IdleTask("none", "none", FALSE)]
    /\ unforced_pass = -1
    /\ probe_failed = [n \in Slaves |-> "no"]

\* A part of the program that is studied on its own and is not running.
Off == [pc |-> "off"]

\* The parts of the program that are studied on their own are not running,
\* except part k.
OffExcept(k) ==
    /\ (k = "tier" \/ tier = Off)
    /\ (k = "ctor" \/ ctor = Off)
    /\ (k = "verify" \/ verify = Off)
    /\ (k = "raw" \/ raw = Off)
    /\ (k = "ids" \/ ids = Off)
    /\ (k = "lag" \/ lag = Off)
    /\ (k = "failover" \/ failover = Off)
    /\ (k = "classify" \/ classify = Off)
    /\ (k = "capacity" \/ capacity = Off)
    /\ (k = "load" \/ load = Off)

SelOff ==
    /\ sel_in = <<>>
    /\ sel_r = 0
    /\ sel_out = "none"

Init ==
    /\ ManagerInit
    /\ SelOff
    /\ OffExcept("none")

\* The clock advances between any two steps.
Tick ==
    /\ now + TickLen <= MaxTime
    /\ now' = now + TickLen
    /\ UNCHANGED <<mgr, pool_state, task, hist, sel_vars, suite_vars>>

\* --------------------------------------------------------- initialize_pools
\* The call runs to the first await aiomysql.create_pool(...), for config 0.
initialize_pools(t) ==
    /\ task[t].pc = "idle"
    /\ task' = [task EXCEPT ![t] =
            [IdleTask("initialize_pools", "none", FALSE) EXCEPT
                !.pc = "creating", !.pos = 0]]
    /\ UNCHANGED <<mgr, now, pool_state, hist, sel_vars, suite_vars>>

\* create_pool_done with the weight of a replica whose pool was created set
\* back to 1.0.
create_pool_done_resets_weight(t, created) ==
    /\ task[t].pc = "creating"
    /\ LET name == server_name(task[t].pos) IN
        IF created
        THEN /\ connection_pools' = PoolPut(connection_pools, name)
             /\ server_health' = DictPut(server_health, name, TRUE)
             /\ slave_weights' =
                    IF is_slave(name)
                    THEN [slave_weights EXCEPT ![slave_index(name) + 1] = 5]
                    ELSE slave_weights
             /\ probe_failed' = [s \in Slaves |->
                    IF s = name /\ probe_failed[s] = "yes"
                    THEN "recreated" ELSE probe_failed[s]]
        ELSE /\ server_health' = DictPut(server_health, name, FALSE)
             /\ UNCHANGED <<connection_pools, probe_failed, slave_weights>>
    /\ task' = [task EXCEPT ![t] =
            IF task[t].pos + 1 \in db_configs
            THEN [@ EXCEPT !.pos = @ + 1]
            ELSE IdleTask("initialize_pools", "returned", FALSE)]
    /\ UNCHANGED <<last_health_check, now, pool_state,
                   unforced_pass, sel_vars, suite_vars>>

\* create_pool for config pos finishes: created (the pool is stored and the
\* node marked healthy) or raised (the node is marked unhealthy); then the
\* loop goes on to the next config or the call returns.
create_pool_done(t, created) ==
    /\ task[t].pc = "creating"
    /\ LET name == server_name(task[t].pos) IN
        IF created
        THEN /\ connection_pools' = PoolPut(connection_pools, name)
             /\ server_health' = DictPut(server_health, name, TRUE)
             /\ probe_failed' = [s \in Slaves |->
                    IF s = name /\ probe_failed[s] = "yes"
                    THEN "recreated" ELSE probe_failed[s]]
        ELSE /\ server_health' = DictPut(server_health, name, FALSE)
             /\ UNCHANGED <<connection_pools, probe_failed>>
    /\ task' = [task EXCEPT ![t] =
            IF task[t].pos + 1 \in db_configs
            THEN [@ EXCEPT !.pos = @ + 1]
            ELSE IdleTask("initialize_pools", "returned", FALSE)]
    /\ UNCHANGED <<slave_weights, last_health_check, now, pool_state,
                   unforced_pass, sel_vars, suite_vars>>

\* ------------------------------------------------------------------ routing
\* The test of line 92 without its health part.
is_available_pooled(slave_name) ==
    has_pool(slave_name)

\* slave_name in self.connection_pools and self.server_health.get(slave_name, False)
is_available(slave_name) ==
    has_pool(slave_name) /\ DictGet(server_health, slave_name)

\* The loop of get_slave_connection over enumerate(self.slave_configs) from
\* 0-based index i on: the (slave_name, weight) pairs in registration order.
RECURSIVE available_from(_)
available_from(i) ==
    IF i \notin slave_configs THEN <<>>
    ELSE (IF is_available(server_name(i + 1))
          THEN << <<server_name(i + 1), slave_weights[i + 1]>> >>
          ELSE <<>>) \o available_from(i + 1)

available_slaves == available_from(0)

\* [slave[0] for slave in available_slaves]
slave_names(av) == {av[i][1] : i \in 1..Len(av)}

\* sum(weight for _, weight in available_slaves)
RECURSIVE sum_weights(_, _)
sum_weights(av, i) ==
    IF i > Len(av) THEN 0 ELSE av[i][2] + sum_weights(av, i + 1)

total_weight(av) == sum_weights(av, 1)

\* for server_name, weight in available_slaves: cumulative += weight;
\* if rand_val <= cumulative: return server_name.  After the loop the last
\* candidate is returned.
RECURSIVE selection_loop(_, _, _, _)
selection_loop(av, rand_val, i, cumulative) ==
    IF i > Len(av) THEN av[Len(av)][1]
    ELSE IF rand_val <= cumulative + av[i][2] THEN av[i][1]
    ELSE selection_loop(av, rand_val, i + 1, cumulative + av[i][2])

\* The loop with `rand_val < cumulative` in place of `rand_val <= cumulative`.
RECURSIVE selection_loop_strict(_, _, _, _)
selection_loop_strict(av, rand_val, i, cumulative) ==
    IF i > Len(av) THEN av[Len(av)][1]
    ELSE IF rand_val < cumulative + av[i][2] THEN av[i][1]
    ELSE selection_loop_strict(av, rand_val, i + 1, cumulative + av[i][2])

_weighted_random_selection_strict(av, rand_val) ==
    IF total_weight(av) = 0 THEN av[1][1]
    ELSE selection_loop_strict(av, rand_val, 1, 0)

\* _weighted_random_selection with rand_val, the value random.uniform(0,
\* total_weight) returned, made an argument.
_weighted_random_selection(av, rand_val) ==
    IF total_weight(av) = 0 THEN av[1][1]
    ELSE selection_loop(av, rand_val, 1, 0)

\* The values random.uniform(0, total_weight) can return, on the grid of
\* fifths: 0, total_weight and every boundary between two candidates are
\* among them.
draws(av) == 0..total_weight(av)

\* Lines 103-108 without the prefer_server branch.
selected_slave_weighted(av, prefer_server, rand_val) ==
    _weighted_random_selection(av, rand_val)

\* get_slave_connection, lines 103-108: the replica the connection is taken from.
selected_slave(av, prefer_server, rand_val) ==
    IF prefer_server # "none" /\ prefer_server \in slave_names(av)
    THEN prefer_server
    ELSE _weighted_random_selection(av, rand_val)

\* `async with pool.acquire() as conn: yield conn`: the connection is leased
\* from node n's pool and the caller's block runs.  o is the call, how the
\* way n was chosen, w whether the warning was logged, p prefer_server.
Lease(t, o, n, how, w, p) ==
    /\ task' = [task EXCEPT ![t] =
            [IdleTask(o, "none", w) EXCEPT
                !.pc = "block", !.conn = n, !.via = how, !.prefer = p]]
    /\ leased' = [leased EXCEPT ![n] = @ + 1]

\* The call raises before it yields a connection.
Raise(t, o, w) ==
    /\ task' = [task EXCEPT ![t] = IdleTask(o, "error", w)]
    /\ UNCHANGED leased

\* get_master_connection without the test of line 77.
master_lease_unchecked(t, o, how, w, p, acquired) ==
    IF acquired
    THEN Lease(t, o, "master", how, w, p)
    ELSE Raise(t, o, w)

\* get_master_connection taking the first pool there is when the primary
\* has none.
master_lease_first_pool(t, o, how, w, p, acquired) ==
    IF connection_pools # <<>> /\ acquired
    THEN Lease(t, o, IF has_pool("master") THEN "master" ELSE connection_pools[1],
               how, w, p)
    ELSE Raise(t, o, w)

\* get_master_connection up to its yield: raises if the primary has no pool
\* or if pool.acquire() raises, else leases from the primary's pool.
master_lease(t, o, how, w, p, acquired) ==
    IF has_pool("master") /\ acquired
    THEN Lease(t, o, "master", how, w, p)
    ELSE Raise(t, o, w)

\* prefer_server: None ("none"), a replica, the primary, or a name of no node.
PreferValues == {"none", "master", "unknown"} \cup Slaves

\* get_master_connection.
get_master_connection(t, acquired) ==
    /\ task[t].pc = "idle"
    /\ master_lease(t, "get_master_connection", "master", FALSE, "none", acquired)
    /\ UNCHANGED <<mgr, now, orphans, hist, sel_vars, suite_vars>>

\* execute_write_query and execute_transaction run their statements inside
\* `async with self.get_master_connection() as conn`; a failing statement
\* leaves that block by an exception (execute_transaction rolls back and
\* re-raises).
execute_write_query(t, acquired) == get_master_connection(t, acquired)

execute_transaction(t, acquired) == get_master_connection(t, acquired)

\* get_slave_connection(prefer_server).  rand_val is drawn only when
\* _weighted_random_selection is called with a positive total weight.
get_slave_connection(t, prefer_server, acquired) ==
    /\ task[t].pc = "idle"
    /\ LET o == "get_slave_connection"
           av == available_slaves
       IN  IF av = <<>>
           THEN master_lease(t, o, "fallback", TRUE, prefer_server, acquired)
           ELSE IF ~acquired THEN Raise(t, o, FALSE)
           ELSE IF prefer_server # "none" /\ prefer_server \in slave_names(av)
           THEN Lease(t, o, selected_slave(av, prefer_server, 0), "prefer",
                      FALSE, prefer_server)
           ELSE \E rand_val \in draws(av) :
                    Lease(t, o, selected_slave(av, prefer_server, rand_val),
                          "weighted", FALSE, prefer_server)
    /\ UNCHANGED <<mgr, now, orphans, hist, sel_vars, suite_vars>>

\* execute_read_query runs inside `async with self.get_slave_connection()`.
execute_read_query(t, acquired) == get_slave_connection(t, "none", acquired)

\* get_any_connection(prefer_read) up to its first yield or to the handler
\* of line 122, which catches whatever get_slave_connection raised.
get_any_connection(t, prefer_read, acquired) ==
    /\ task[t].pc = "idle"
    /\ LET o == "get_any_connection"
           av == available_slaves
           caught(w) == /\ task' = [task EXCEPT ![t] =
                                [IdleTask(o, "none", w) EXCEPT !.pc = "any_except"]]
                        /\ UNCHANGED leased
       IN  IF prefer_read /\ NumSlaves > 0
           THEN IF av = <<>>
                THEN IF has_pool("master") /\ acquired
                     THEN Lease(t, o, "master", "fallback", TRUE, "none")
                     ELSE caught(TRUE)
                ELSE IF acquired
                     THEN \E rand_val \in draws(av) :
                            Lease(t, o, selected_slave(av, "none", rand_val),
                                  "weighted", FALSE, "none")
                     ELSE caught(FALSE)
           ELSE master_lease(t, o, "master", FALSE, "none", acquired)
    /\ UNCHANGED <<mgr, now, orphans, hist, sel_vars, suite_vars>>

\* get_any_connection, line 125, reached from the handler before anything
\* was yielded: the fallback to the primary.
any_fallback(t, acquired) ==
    /\ task[t].pc = "any_except"
    /\ master_lease(t, "get_any_connection", "master", task[t].warned, "none", acquired)
    /\ UNCHANGED <<mgr, now, orphans, hist, sel_vars, suite_vars>>

\* The caller's block ends, normally or by raising an Exception, and the
\* `async with pool.acquire()` that holds the connection releases it.  In
\* get_any_connection the handler of line 122 also catches the caller's
\* exception when it comes out of get_slave_connection, and goes on to
\* line 125.
block_exit(t, raised) ==
    /\ task[t].pc = "block"
    /\ leased' = [leased EXCEPT ![task[t].conn] = @ - 1]
    /\ task' = [task EXCEPT ![t] =
            IF raised /\ task[t].op = "get_any_connection" /\ task[t].via # "master"
            THEN [IdleTask(task[t].op, "none", task[t].warned) EXCEPT !.pc = "any_rethrow"]
            ELSE IdleTask(task[t].op, IF raised THEN "raised" ELSE "returned",
                          task[t].warned)]
    /\ UNCHANGED <<mgr, now, orphans, hist, sel_vars, suite_vars>>

\* get_any_connection, line 125, reached after the caller's exception was
\* thrown into the generator.  If get_master_connection raises, that error
\* reaches the caller.  If it yields, the generator has yielded a second
\* time and the context manager raises RuntimeError("generator didn't stop
\* after athrow()"): contextlib either closes the generator at once (the
\* connection goes back) or leaves it suspended with the connection leased
\* until the generator is finalized.
any_second_yield(t, acquired, closed) ==
    /\ task[t].pc = "any_rethrow"
    /\ IF has_pool("master") /\ acquired
       THEN /\ task' = [task EXCEPT ![t] =
                    IdleTask("get_any_connection", "runtime_error", task[t].warned)]
            /\ IF closed
               THEN UNCHANGED <<leased, orphans>>
               ELSE /\ orphans < MaxOrphans
                    /\ orphans' = orphans + 1
                    /\ leased' = [leased EXCEPT !["master"] = @ + 1]
       ELSE /\ closed
            /\ Raise(t, "get_any_connection", task[t].warned)
            /\ UNCHANGED orphans
    /\ UNCHANGED <<mgr, now, hist, sel_vars, suite_vars>>

\* The event loop finalizes an abandoned generator (aclose): its
\* `async with pool.acquire()` releases the connection.
finalize_generator ==
    /\ orphans > 0
    /\ orphans' = orphans - 1
    /\ leased' = [leased EXCEPT !["master"] = @ - 1]
    /\ UNCHANGED <<mgr, now, task, hist, sel_vars, suite_vars>>

\* ------------------------------------------------------------- health_check
\* Response times of the timed query, in milliseconds.
ResponseTimes == {30, 49, 50, 80, 99, 100, 150}

\* The tiers with `<=` in place of `<`.
weight_for_inclusive(response_time) ==
    IF response_time <= 50 THEN 6
    ELSE IF response_time <= 100 THEN 5
    ELSE 4

\* Lines 174-179: the weight for a response time.
weight_for(response_time) ==
    IF response_time < 50 THEN 6
    ELSE IF response_time < 100 THEN 5
    ELSE 4

\* next() on the iterator of self.connection_pools.items() created when the
\* dict had `used` entries, after `pos` of them were delivered: RuntimeError
\* if the dict changed size, StopIteration at the end, else the next key.
iter_next(pos, used) ==
    IF Len(connection_pools) # used THEN "RuntimeError"
    ELSE IF pos + 1 > used THEN "StopIteration"
    ELSE connection_pools[pos + 1]

\* health_check(force) up to its first await: the throttle, then either an
\* empty loop (the call returns at once) or the probe of the first pool.
health_check(t, frc) ==
    /\ task[t].pc = "idle"
    /\ LET o == "health_check" IN
        IF ~frc /\ (now - last_health_check) < health_check_interval
        THEN /\ task' = [task EXCEPT ![t] = IdleTask(o, "throttled", FALSE)]
             /\ UNCHANGED <<last_health_check, unforced_pass>>
        ELSE /\ unforced_pass' = IF frc THEN unforced_pass ELSE now
             /\ IF connection_pools = <<>>
                THEN /\ last_health_check' = now
                     /\ task' = [task EXCEPT ![t] = IdleTask(o, "returned", FALSE)]
                ELSE /\ UNCHANGED last_health_check
                     /\ task' = [task EXCEPT ![t] =
                            [IdleTask(o, "none", FALSE) EXCEPT
                                !.pc = "probing", !.force = frc,
                                !.current_time = now, !.pos = 1,
                                !.used = Len(connection_pools),
                                !.cur = connection_pools[1]]]
    /\ UNCHANGED <<connection_pools, server_health, slave_weights, now,
                   pool_state, probe_failed, sel_vars, suite_vars>>

\* The node's probe succeeded: lines 169-179.
probe_ok(name, response_time) ==
    /\ server_health' = DictPut(server_health, name, TRUE)
    /\ slave_weights' =
            IF is_slave(name)
            THEN [slave_weights EXCEPT ![slave_index(name) + 1] = weight_for(response_time)]
            ELSE slave_weights

\* Lines 183-190 without the weight assignment of line 190.
probe_fail_keeps_weight(name) ==
    /\ server_health' = DictPut(server_health, name, FALSE)
    /\ UNCHANGED slave_weights

\* A handler that marks every node unhealthy when one probe raises.
probe_fail_marks_all(name) ==
    /\ server_health' = [n \in (DOMAIN server_health) \cup {name} |-> FALSE]
    /\ slave_weights' = [i \in 1..NumSlaves |-> 0]

\* The node's probe raised: lines 183-190.
probe_fail(name) ==
    /\ server_health' = DictPut(server_health, name, FALSE)
    /\ slave_weights' =
            IF is_slave(name)
            THEN [slave_weights EXCEPT ![slave_index(name) + 1] = 0]
            ELSE slave_weights

\* The probe of the current pool ends (both round-trips done, or one of them
\* raised); health and weight are written and the loop goes on: to the next
\* pool, to the end of the pass (last_health_check = current_time), or to
\* the RuntimeError of an iterator whose dict changed size.
probe_done(t, ok, response_time) ==
    /\ task[t].pc = "probing"
    /\ LET name == task[t].cur
           nxt == iter_next(task[t].pos, task[t].used)
       IN
        /\ IF ok THEN probe_ok(name, response_time)
           ELSE response_time = 0 /\ probe_fail(name)
        /\ probe_failed' = [s \in Slaves |->
                IF s = name THEN (IF ok THEN "no" ELSE "yes") ELSE probe_failed[s]]
        /\ UNCHANGED connection_pools
        /\ IF nxt = "RuntimeError"
           THEN /\ task' = [task EXCEPT ![t] = IdleTask("health_check", "error", FALSE)]
                /\ UNCHANGED last_health_check
           ELSE IF nxt = "StopIteration"
           THEN /\ task' = [task EXCEPT ![t] = IdleTask("health_check", "returned", FALSE)]
                /\ last_health_check' = task[t].current_time
           ELSE /\ task' = [task EXCEPT ![t] =
                        [@ EXCEPT !.pos = @ + 1, !.cur = nxt,
                                  !.probed = @ \cup {name}]]
                /\ UNCHANGED last_health_check
    /\ UNCHANGED <<now, pool_state, unforced_pass, sel_vars, suite_vars>>

\* The probes of task t's pass that have started and not ended: the loop of
\* line 154 awaits the two round-trips of one pool before it takes the next.
in_flight(t) == IF task[t].pc = "probing" THEN {task[t].cur} ELSE {}

\* ---------------------------------------------------------- close_all_pools
\* close_all_pools up to its first await pool.wait_closed(), or, with no
\* pool, to its end.
close_all_pools(t) ==
    /\ task[t].pc = "idle"
    /\ LET o == "close_all_pools" IN
        IF connection_pools = <<>>
        THEN /\ task' = [task EXCEPT ![t] = IdleTask(o, "returned", FALSE)]
             /\ server_health' = EmptyDict
        ELSE /\ task' = [task EXCEPT ![t] =
                    [IdleTask(o, "none", FALSE) EXCEPT
                        !.pc = "closing", !.pos = 1,
                        !.used = Len(connection_pools),
                        !.cur = connection_pools[1]]]
             /\ UNCHANGED server_health
    /\ UNCHANGED <<connection_pools, slave_weights, last_health_check, now,
                   pool_state, hist, sel_vars, suite_vars>>

\* wait_closed() of the current pool ends (or raised, which is logged); the
\* loop goes on, and after the last pool both dicts are cleared.
wait_closed_done(t) ==
    /\ task[t].pc = "closing"
    /\ LET nxt == iter_next(task[t].pos, task[t].used) IN
        IF nxt = "RuntimeError"
        THEN /\ task' = [task EXCEPT ![t] = IdleTask("close_all_pools", "error", FALSE)]
             /\ UNCHANGED <<connection_pools, server_health>>
        ELSE IF nxt = "StopIteration"
        THEN /\ task' = [task EXCEPT ![t] = IdleTask("close_all_pools", "returned", FALSE)]
             /\ connection_pools' = <<>>
             /\ server_health' = EmptyDict
        ELSE /\ task' = [task EXCEPT ![t] = [@ EXCEPT !.pos = @ + 1, !.cur = nxt]]
             /\ UNCHANGED <<connection_pools, server_health>>
    /\ UNCHANGED <<slave_weights, last_health_check, now, pool_state, hist, sel_vars, suite_vars>>

\* ------------------------------------------------------------ specification
\* The caller runs the operations of the manager one after another, in any
\* order and with any arguments; the nodes answer or fail as they like.
Lifecycle ==
    \/ initialize_pools(Caller)
    \/ \E created \in BOOLEAN : create_pool_done(Caller, created)
    \/ close_all_pools(Caller)
    \/ wait_closed_done(Caller)

Routing ==
    \/ \E acquired \in BOOLEAN : get_master_connection(Caller, acquired)
    \/ \E acquired \in BOOLEAN : execute_write_query(Caller, acquired)
    \/ \E acquired \in BOOLEAN : execute_transaction(Caller, acquired)
    \/ \E p \in PreferValues, acquired \in BOOLEAN :
            get_slave_connection(Caller, p, acquired)
    \/ \E acquired \in BOOLEAN : execute_read_query(Caller, acquired)
    \/ \E prefer_read \in BOOLEAN, acquired \in BOOLEAN :
            get_any_connection(Caller, prefer_read, acquired)
    \/ \E acquired \in BOOLEAN : any_fallback(Caller, acquired)
    \/ \E raised \in BOOLEAN : block_exit(Caller, raised)
    \/ \E acquired \in BOOLEAN, closed \in BOOLEAN :
            any_second_yield(Caller, acquired, closed)
    \/ finalize_generator

Probing(t) ==
    \/ \E frc \in BOOLEAN : health_check(t, frc)
    \/ \E response_time \in ResponseTimes : probe_done(t, TRUE, response_time)
    \/ probe_done(t, FALSE, 0)

Next ==
    \/ Lifecycle
    \/ Routing
    \/ Probing(Caller)

Spec == Init /\ [][Next]_vars

\* A second task, the health prober, runs health_check while the caller
\* creates the pools and runs health_check itself; the calls overlap at
\* every await and the clock advances.  Every pool is created.
NextThrottle ==
    \/ Tick
    \/ initialize_pools(Caller)
    \/ create_pool_done(Caller, TRUE)
    \/ Probing(Caller)
    \/ Probing(Prober)

SpecThrottle == Init /\ [][NextThrottle]_vars

\* ------------------------------------------- weighted selection on its own
\* _weighted_random_selection applied to every candidate list of up to
\* MaxCands replicas in registration order, each with one of the weights the
\* manager assigns, and to every draw of random.uniform(0, total_weight).
Weights == {0, 4, 5, 6}

CandidateLists ==
    {av \in UNION {[1..n -> (SeqRange(SlaveNames) \X Weights)] : n \in 1..MaxCands} :
        \A i, j \in 1..Len(av) :
            i < j => slave_index(av[i][1]) < slave_index(av[j][1])}

SelInit ==
    /\ ManagerInit
    /\ sel_in \in CandidateLists
    /\ sel_r \in draws(sel_in)
    /\ sel_out = "none"
    /\ OffExcept("none")

apply_selection ==
    /\ sel_out = "none"
    /\ sel_out' = _weighted_random_selection(sel_in, sel_r)
    /\ UNCHANGED <<mgr, now, pool_state, task, hist, sel_in, sel_r, suite_vars>>

SelSpec == SelInit /\ [][apply_selection]_vars

\* ----------------------------------------------------- one probe on its own
\* Every pool exists; health and weights are whatever earlier probes and
\* initialisations left.  One probe of one node succeeds: its liveness
\* round-trip took liveness_ms, its timed query timed_ms.
TierInit ==
    /\ connection_pools = [i \in 1..(NumSlaves + 1) |-> server_name(i - 1)]
    /\ server_health \in [Nodes -> BOOLEAN]
    /\ slave_weights \in [1..NumSlaves -> Weights]
    /\ last_health_check = 0
    /\ now = health_check_interval
    /\ leased = [n \in Nodes |-> 0]
    /\ orphans = 0
    /\ task = [t \in Tasks |-> IdleTask("none", "none", FALSE)]
    /\ unforced_pass = -1
    /\ probe_failed = [n \in Slaves |-> "no"]
    /\ SelOff
    /\ OffExcept("tier")
    /\ tier \in [pc : {"probe"}, name : Nodes,
                 liveness_ms : {30, 150}, timed_ms : ResponseTimes]

\* Lines 156-181 for one pool: both round-trips succeed.
probe_succeeds ==
    /\ tier.pc = "probe"
    /\ probe_ok(tier.name, tier.timed_ms)
    /\ tier' = [tier EXCEPT !.pc = "done"]
    /\ UNCHANGED <<connection_pools, last_health_check, now, pool_state, task,
                   hist, sel_vars, ctor, verify, raw, ids, lag,
                   failover, classify, capacity, load>>

TierSpec == TierInit /\ [][probe_succeeds]_vars

\* ------------------------------------------------- the constructor on its own
\* DatabaseConnectionManager(db_configs) for every list of up to MaxConfigs
\* node configurations, [Master, Slave1, ...], each named by host:port.
Configs == {"localhost:3306", "localhost:3307", "localhost:3308"}

ConfigLists == UNION {[1..n -> Configs] : n \in 0..MaxConfigs}

\* __init__, lines 27-42: the fields of the new manager.  No statement of
\* it raises, whatever the length of db_configs.
__init__(configs) ==
    LET slaves == IF Len(configs) > 1 THEN Tail(configs) ELSE <<>>
    IN  [raised |-> "none",
         db_configs |-> configs,
         master_config |-> IF configs # <<>> THEN configs[1] ELSE "None",
         slave_configs |-> slaves,
         connection_pools |-> <<>>,
         server_health |-> <<>>,
         last_health_check |-> 0,
         health_check_interval |-> health_check_interval,
         slave_weights |-> [i \in 1..Len(slaves) |-> 5]]

CtorInit ==
    /\ ManagerInit
    /\ SelOff
    /\ OffExcept("ctor")
    /\ ctor \in [pc : {"new"}, arg : ConfigLists]

construct ==
    /\ ctor.pc = "new"
    /\ ctor' = [pc |-> "done", arg |-> ctor.arg, manager |-> __init__(ctor.arg)]
    /\ UNCHANGED <<mgr, now, pool_state, task, hist, sel_vars, tier, verify, raw, ids, lag,
                   failover, classify,
                   capacity, load>>

CtorSpec == CtorInit /\ [][construct]_vars

\* ------------------------------------------------ _read_and_verify on its own
\* Strings are sequences of characters, so that test_id + test_data is \o.
TestIds == {<<"t">>, <<"t", "1">>}

Payloads == {<<"a", "b", "c">>, <<"1", "a", "b", "c">>, <<"x">>}

\* hashlib.md5(s.encode()).hexdigest(): a digest that differs for different
\* strings (collisions of MD5 are not modelled).
md5(str) == <<"md5:">> \o str

\* The row of consistency_test the replica holds for a test_id: none, <<>>,
\* or (test_data, checksum), with any stored payload and any stored
\* checksum, the checksum of another id or payload and a damaged one included.
Checksums == {md5(id \o d) : id \in TestIds, d \in Payloads} \cup {<<"md5:", "?">>}

Rows == {<<>>} \cup (Payloads \X Checksums)

\* What the connection does: it works, or aiomysql.connect, cursor.execute
\* or cursor.fetchone raises.
QueryErrors == {"none", "connect", "execute", "fetchone"}

\* The comparison of lines 208-209 without its checksum part.
_read_and_verify_payload_only(row, error, test_id, expected_data) ==
    IF error # "none" THEN FALSE
    ELSE IF row = <<>> THEN FALSE
    ELSE row[1] = expected_data

\* _read_and_verify, lines 192-212, for the row the replica holds and the
\* error the connection raises: the value returned.
_read_and_verify(row, error, test_id, expected_data) ==
    IF error # "none" THEN FALSE
    ELSE IF row = <<>> THEN FALSE
    ELSE LET stored_data == row[1]
             stored_checksum == row[2]
             expected_checksum == md5(test_id \o expected_data)
         IN  stored_data = expected_data /\ stored_checksum = expected_checksum

VerifyInit ==
    /\ ManagerInit
    /\ SelOff
    /\ OffExcept("verify")
    /\ verify \in [pc : {"call"}, test_id : TestIds, expected_data : Payloads,
                   row : Rows, error : QueryErrors]

read_and_verify ==
    /\ verify.pc = "call"
    /\ verify' = [pc |-> "done", test_id |-> verify.test_id,
                  expected_data |-> verify.expected_data,
                  row |-> verify.row, error |-> verify.error,
                  returned |-> _read_and_verify(verify.row, verify.error,
                                    verify.test_id, verify.expected_data)]
    /\ UNCHANGED <<mgr, now, pool_state, task, hist, sel_vars, tier, ctor, raw, ids, lag,
                   failover, classify,
                   capacity, load>>

VerifySpec == VerifyInit /\ [][read_and_verify]_vars

\* ------------------------------------------------ the read-after-write test
\* raw.log is the history of the run: <<"write", i, ok>>, <<"poll", i,
\* consistent>> and <<"delete", i, ok>> for every write to the primary, read
\* of a replica and deletion on the primary that case i attempted.
\* ConsistencyTestSuite.slave_configs: one replica, named by host:port.
suite_slave_configs == <<"localhost:3307">>

\* for delay in [0.1, 0.5, 1.0, 2.0], in tenths of a second
delays == <<1, 5, 10, 20>>

\* consistency_results.append({...}) with the new observation only kept.
record_observation_latest(results, obs) == <<obs>>

\* consistency_results.append({...})
record_observation(results, obs) == Append(results, obs)

\* The loop of line 60 goes to case i + 1, or the function computes its
\* result (lines 92-104) and returns.
next_case(r, events) ==
    IF r.i + 1 < test_cases
    THEN [r EXCEPT !.pc = "write", !.i = @ + 1, !.d = 0, !.slave_idx = 0,
                   !.log = @ \o events]
    ELSE [r EXCEPT !.pc = "done", !.i = @ + 1, !.d = 0, !.slave_idx = 0,
                   !.log = @ \o events,
                   !.total_tests = Len(r.consistency_results),
                   !.consistent_tests =
                        Cardinality({n \in 1..Len(r.consistency_results) :
                                        r.consistency_results[n].consistent})]

\* _test_read_after_write_consistency up to the first await: case 0 is
\* being written to the primary.
RawInit ==
    /\ ManagerInit
    /\ SelOff
    /\ OffExcept("raw")
    /\ raw = [pc |-> "write", i |-> 0, d |-> 0, slave_idx |-> 0,
              consistency_results |-> <<>>, log |-> <<>>,
              total_tests |-> 0, consistent_tests |-> 0]

\* _write_to_master returns (it never raises): lines 65-72.
write_done(write_success) ==
    /\ raw.pc = "write"
    /\ raw' = IF ~write_success
              THEN next_case(raw, << <<"write", raw.i, FALSE>> >>)
              ELSE [raw EXCEPT !.pc = "read", !.d = 1, !.slave_idx = 0,
                               !.log = Append(@, <<"write", raw.i, TRUE>>)]
    /\ UNCHANGED <<mgr, now, pool_state, task, hist, sel_vars, tier, ctor, verify, ids, lag,
                   failover, classify,
                   capacity, load>>

\* The sleep of line 72 (before the first replica of a delay) is over and
\* _read_and_verify returns for replica slave_idx (it never raises): the
\* observation is appended, lines 76-86; after the last replica of the last
\* delay _cleanup_test_data is called.
read_done(consistent) ==
    /\ raw.pc = "read"
    /\ LET obs == [test_case |-> raw.i, slave_index |-> raw.slave_idx,
                   delay_seconds |-> delays[raw.d], consistent |-> consistent]
           results == record_observation(raw.consistency_results, obs)
           events == Append(raw.log, <<"poll", raw.i, consistent>>)
       IN  raw' =
            IF raw.slave_idx + 1 < Len(suite_slave_configs)
            THEN [raw EXCEPT !.slave_idx = @ + 1, !.consistency_results = results,
                             !.log = events]
            ELSE IF raw.d < Len(delays)
            THEN [raw EXCEPT !.d = @ + 1, !.slave_idx = 0,
                             !.consistency_results = results, !.log = events]
            ELSE [raw EXCEPT !.pc = "cleanup", !.consistency_results = results,
                             !.log = events]
    /\ UNCHANGED <<mgr, now, pool_state, task, hist, sel_vars, tier, ctor, verify, ids, lag,
                   failover, classify,
                   capacity, load>>

\* _cleanup_test_data with a failing deletion raising to the test.
cleanup_done_raising(deleted) ==
    /\ raw.pc = "cleanup"
    /\ raw' = IF deleted
              THEN next_case(raw, << <<"delete", raw.i, deleted>> >>)
              ELSE [raw EXCEPT !.pc = "raised",
                               !.log = Append(@, <<"delete", raw.i, deleted>>)]
    /\ UNCHANGED <<mgr, now, pool_state, task, hist, sel_vars, tier, ctor, verify, ids, lag,
                   failover, classify,
                   capacity, load>>

\* _cleanup_test_data returns, the DELETE done or its exception swallowed
\* (lines 216-225).
cleanup_done(deleted) ==
    /\ raw.pc = "cleanup"
    /\ raw' = next_case(raw, << <<"delete", raw.i, deleted>> >>)
    /\ UNCHANGED <<mgr, now, pool_state, task, hist, sel_vars, tier, ctor, verify, ids, lag,
                   failover, classify,
                   capacity, load>>

RawNext ==
    \/ \E write_success \in BOOLEAN : write_done(write_success)
    \/ \E consistent \in BOOLEAN : read_done(consistent)
    \/ \E deleted \in BOOLEAN : cleanup_done(deleted)

RawSpec == RawInit /\ [][RawNext]_vars

\* ----------------------------------------------------------- the canary ids
\* Runs of ConsistencyTestSuite.run against the same primary, started at any
\* time: one after the other or overlapping.  The clock counts half seconds.
Runs == {"run_a", "run_b"}

\* int(time.time()) at clock c
unix_second(c) == c \div 2

\* f"consistency_test_{int(time.time())}_{i}" and f"lag_test_{...}_{i}"
test_id(prefix, c, i) == <<prefix, unix_second(c), i>>

\* Half seconds a case lasts at least before the next case of its run
\* starts: a case of the read-after-write test sleeps 0.1 + 0.5 + 1.0 + 2.0
\* s (7 half seconds at least) if its write succeeded and not at all if it
\* failed; a case of the lag test sleeps 0.5 s (line 137).
case_lasts(phase, write_success) ==
    IF phase = "lag" THEN 1 ELSE IF write_success THEN 7 ELSE 0

IdsInit ==
    /\ ManagerInit
    /\ SelOff
    /\ OffExcept("ids")
    /\ ids = [pc |-> "on", clock |-> 0, issued |-> {},
              run |-> [x \in Runs |-> [phase |-> "idle", i |-> 0, wait |-> 0]]]

\* ConsistencyTestSuite.run is called: the read-after-write test starts.
start_run(x) ==
    /\ ids.pc = "on"
    /\ ids.run[x].phase = "idle"
    /\ ids' = [ids EXCEPT !.run[x].phase = "raw"]
    /\ UNCHANGED <<mgr, now, pool_state, task, hist, sel_vars, tier, ctor, verify, raw, lag,
                   failover, classify,
                   capacity, load>>

\* Run x starts its next case: it makes the test_id (lines 61 and 111) and
\* inserts it on the primary.  ids.issued keeps <<run, test_id, whether the
\* insert succeeded>>.
new_case(x, write_success) ==
    /\ ids.pc = "on"
    /\ LET r == ids.run[x]
           raw_test == r.phase = "raw"
           last == r.i + 1 = (IF raw_test THEN test_cases ELSE lag_cases)
       IN
        /\ r.phase \in {"raw", "lag"}
        /\ r.wait = 0
        /\ ids' = [ids EXCEPT
                !.issued = @ \cup {<<x, test_id(IF raw_test THEN "consistency_test"
                                                ELSE "lag_test", ids.clock, r.i),
                                    write_success>>},
                !.run[x] = [phase |-> IF ~last THEN r.phase
                                      ELSE IF raw_test THEN "lag" ELSE "done",
                            i |-> IF last THEN 0 ELSE r.i + 1,
                            wait |-> case_lasts(r.phase, write_success)]]
    /\ UNCHANGED <<mgr, now, pool_state, task, hist, sel_vars, tier, ctor, verify, raw, lag,
                   failover, classify,
                   capacity, load>>

\* Half a second passes.
half_second ==
    /\ ids.pc = "on"
    /\ ids.clock < MaxClock
    /\ ids' = [ids EXCEPT
            !.clock = @ + 1,
            !.run = [x \in Runs |->
                        [ids.run[x] EXCEPT !.wait = IF @ > 0 THEN @ - 1 ELSE 0]]]
    /\ UNCHANGED <<mgr, now, pool_state, task, hist, sel_vars, tier, ctor, verify, raw, lag,
                   failover, classify,
                   capacity, load>>

IdsNext ==
    \/ \E x \in Runs : start_run(x)
    \/ \E x \in Runs, write_success \in BOOLEAN : new_case(x, write_success)
    \/ half_second

IdsSpec == IdsInit /\ [][IdsNext]_vars

\* ------------------------------------------------------------ the lag test
\* Times are in tenths of a second.  time.time() does not go backwards
\* during a run.  Only differences of times are kept: since_write is
\* time.time() - write_end and since_read is time.time() - read_start.
\* `while (time.time() - read_start) < 5.0`
polling_ceiling == 50

\* `await asyncio.sleep(0.1)`
poll_interval == 1

\* How long one _read_and_verify can take.
ReadTimes == {0, 9, 60}

\* Sum of the lag_seconds of samples n..Len(ms).
RECURSIVE sum_lag(_, _)
sum_lag(ms, n) == IF n > Len(ms) THEN 0 ELSE ms[n].lag_seconds + sum_lag(ms, n + 1)

\* Lines 140-146 with the aggregates of an empty list left undefined.
lag_statistics_unguarded(ms) ==
    LET lag_times == {ms[n].lag_seconds : n \in 1..Len(ms)}
    IN  [avg_lag |-> <<sum_lag(ms, 1), Len(ms)>>,
         max_lag |-> IF ms = <<>> THEN -1 ELSE CHOOSE v \in lag_times : \A w \in lag_times : w <= v,
         min_lag |-> IF ms = <<>> THEN -1 ELSE CHOOSE v \in lag_times : \A w \in lag_times : v <= w]

\* Lines 140-146: avg_lag is the fraction <<sum, count>>; all are 0 for an
\* empty list.
lag_statistics(ms) ==
    LET lag_times == {ms[n].lag_seconds : n \in 1..Len(ms)}
    IN  IF ms # <<>>
        THEN [avg_lag |-> <<sum_lag(ms, 1), Len(ms)>>,
              max_lag |-> CHOOSE v \in lag_times : \A w \in lag_times : w <= v,
              min_lag |-> CHOOSE v \in lag_times : \A w \in lag_times : v <= w]
        ELSE [avg_lag |-> <<0, 1>>, max_lag |-> 0, min_lag |-> 0]

LagInit ==
    /\ ManagerInit
    /\ SelOff
    /\ OffExcept("lag")
    /\ lag = [pc |-> "write", slave_configs |-> suite_slave_configs,
              i |-> 0, slave_idx |-> 0,
              since_write |-> 0, since_read |-> 0,
              lag_measurements |-> <<>>, outcomes |-> <<>>,
              statistics |-> lag_statistics(<<>>)]

\* The loop of line 120 goes to the replica after slave_idx (read_start =
\* time.time(), and the first poll is awaited) or, after the last replica,
\* to _cleanup_test_data.
next_replica(l) ==
    IF l.slave_idx + 1 < Len(l.slave_configs)
    THEN [l EXCEPT !.pc = "poll", !.slave_idx = @ + 1, !.since_read = 0]
    ELSE [l EXCEPT !.pc = "cleanup"]

\* _write_to_master returns; its result is not looked at (line 116).  The
\* first replica is polled.
lag_write_done(write_success) ==
    /\ lag.pc = "write"
    /\ lag' = IF Len(lag.slave_configs) > 0
              THEN [lag EXCEPT !.pc = "poll", !.slave_idx = 0,
                               !.since_write = 0, !.since_read = 0]
              ELSE [lag EXCEPT !.pc = "cleanup", !.since_write = 0]
    /\ UNCHANGED <<mgr, now, pool_state, task, hist, sel_vars, tier, ctor, verify, raw, ids,
                   failover, classify,
                   capacity, load>>

\* _read_and_verify returns after read_time.  A match appends the sample
\* and breaks (lines 126-132); otherwise the test sleeps 0.1 s and polls
\* again while less than 5.0 s have passed since read_start.  outcomes
\* keeps how the polling of each (case, replica) ended.
lag_poll_done(matched, read_time) ==
    /\ lag.pc = "poll"
    /\ LET lag_time == lag.since_write + read_time
           sample == [slave_index |-> lag.slave_idx, lag_seconds |-> lag_time,
                      test_case |-> lag.i]
           slept == [lag EXCEPT !.since_write = @ + read_time + poll_interval,
                                !.since_read = @ + read_time + poll_interval]
       IN  lag' =
            IF matched
            THEN next_replica([lag EXCEPT
                    !.since_write = lag_time,
                    !.since_read = @ + read_time,
                    !.lag_measurements = Append(@, sample),
                    !.outcomes = Append(@, <<lag.i, lag.slave_idx, "matched">>)])
            ELSE IF slept.since_read < polling_ceiling
            THEN slept
            ELSE next_replica([slept EXCEPT
                    !.outcomes = Append(@, <<lag.i, lag.slave_idx, "ceiling">>)])
    /\ UNCHANGED <<mgr, now, pool_state, task, hist, sel_vars, tier, ctor, verify, raw, ids,
                   failover, classify,
                   capacity, load>>

\* _cleanup_test_data and the sleep of line 137 are over: the next case is
\* written, or the statistics are computed and the test returns.
lag_cleanup_done ==
    /\ lag.pc = "cleanup"
    /\ lag' = IF lag.i + 1 < lag_cases
              THEN [lag EXCEPT !.pc = "write", !.i = @ + 1, !.slave_idx = 0,
                               !.since_write = 0, !.since_read = 0]
              ELSE [lag EXCEPT !.pc = "done", !.i = @ + 1, !.slave_idx = 0,
                               !.since_write = 0, !.since_read = 0,
                               !.statistics = lag_statistics(lag.lag_measurements)]
    /\ UNCHANGED <<mgr, now, pool_state, task, hist, sel_vars, tier, ctor, verify, raw, ids,
                   failover, classify,
                   capacity, load>>

LagNext ==
    \/ \E write_success \in BOOLEAN : lag_write_done(write_success)
    \/ \E matched \in BOOLEAN, read_time \in ReadTimes : lag_poll_done(matched, read_time)
    \/ lag_cleanup_done

LagSpec == LagInit /\ [][LagNext]_vars

\* The lag test of a suite whose self.slave_configs lists two replicas: the
\* loop of line 120 polls them one after the other.
LagManyInit ==
    /\ ManagerInit
    /\ SelOff
    /\ OffExcept("lag")
    /\ lag = [pc |-> "write",
              slave_configs |-> <<"localhost:3307", "localhost:3308">>,
              i |-> 0, slave_idx |-> 0,
              since_write |-> 0, since_read |-> 0,
              lag_measurements |-> <<>>, outcomes |-> <<>>,
              statistics |-> lag_statistics(<<>>)]

\* The steps of the lag test when no read returns at once.
LagManyNext ==
    \/ \E write_success \in BOOLEAN : lag_write_done(write_success)
    \/ \E matched \in BOOLEAN, read_time \in ReadTimes \ {0} :
            lag_poll_done(matched, read_time)
    \/ lag_cleanup_done

LagManySpec == LagManyInit /\ [][LagManyNext]_vars

\* ------------------------------------------------- the failover simulation
\* Times are in seconds, average response times in milliseconds.
\* What _measure_performance can return as avg_response_time: 0 when no
\* query succeeded.
NormalAvgs == {0, 5, 10, 20}

RecoveryAvgs == {0, 3, 4, 6, 7, 8, 11, 12, 13, 14, 15, 16, 24, 28, 29}

\* How long _measure_performance(duration=30) runs: its loop ends once 30 s
\* have passed.
MeasureTimes == {30, 31}

\* How long `await asyncio.sleep(5)` takes.
OutageTimes == {5, 6}

\* Lines 295-298: performance_degradation in percent, as the fraction
\* <<numerator, denominator>>.
performance_degradation(normal_avg, recovery_avg) ==
    <<(normal_avg - recovery_avg) * 100, normal_avg>>

\* The comparison without abs().
impact_at_most_signed(degradation, percent) ==
    degradation[1] <= percent * degradation[2]

\* abs(performance_degradation) <= percent, for a positive denominator
impact_at_most(degradation, percent) ==
    (IF degradation[1] < 0 THEN 0 - degradation[1] ELSE degradation[1])
        <= percent * degradation[2]

\* Lines 307-312.
recovery_quality(recovery_time, degradation) ==
    IF recovery_time <= 30 /\ impact_at_most(degradation, 20) THEN "EXCELLENT"
    ELSE IF recovery_time <= 60 /\ impact_at_most(degradation, 40) THEN "GOOD"
    ELSE "NEEDS_IMPROVEMENT"

\* Lines 294-322: the report, or the ZeroDivisionError of line 297 when the
\* baseline average is 0.  (The two qps fields are left out.)
failover_result(recovery_time, normal_avg, recovery_avg) ==
    IF normal_avg = 0
    THEN [raised |-> "ZeroDivisionError"]
    ELSE LET degradation == performance_degradation(normal_avg, recovery_avg)
         IN  [raised |-> "none",
              recovery_time_seconds |-> recovery_time,
              performance_impact_percent |->
                    <<IF degradation[1] < 0 THEN 0 - degradation[1]
                      ELSE degradation[1], degradation[2]>>,
              recovery_quality |-> recovery_quality(recovery_time, degradation),
              target_recovery_time |-> 30,
              recovery_success |-> recovery_time <= 30]

\* _simulate_failover_test up to its first await: the baseline is measured.
FailoverInit ==
    /\ ManagerInit
    /\ SelOff
    /\ OffExcept("failover")
    /\ failover = [pc |-> "baseline", normal_avg |-> 0, since_failure_start |-> 0,
                   outage_seconds |-> 0]

\* The baseline measurement returns; failure_start = time.time() and the
\* outage, asyncio.sleep(5), begins (lines 276-283).
baseline_done(avg) ==
    /\ failover.pc = "baseline"
    /\ failover' = [failover EXCEPT !.pc = "outage", !.normal_avg = avg]
    /\ UNCHANGED <<mgr, now, pool_state, task, hist, sel_vars, tier, ctor,
                   verify, raw, ids, lag, classify,
                   capacity, load>>

\* The outage is over after `seconds`; the recovery measurement begins
\* (lines 283-289).  outage_seconds keeps the span of the outage window.
outage_over(seconds) ==
    /\ failover.pc = "outage"
    /\ failover' = [failover EXCEPT !.pc = "recovery",
                                    !.since_failure_start = @ + seconds,
                                    !.outage_seconds = seconds]
    /\ UNCHANGED <<mgr, now, pool_state, task, hist, sel_vars, tier, ctor,
                   verify, raw, ids, lag, classify,
                   capacity, load>>

\* The recovery measurement returns after `seconds`; failure_end =
\* time.time(), recovery_time = failure_end - failure_start and the report
\* is made (lines 286-322).
recovery_done(avg, seconds) ==
    /\ failover.pc = "recovery"
    /\ LET recovery_time == failover.since_failure_start + seconds
           result == failover_result(recovery_time, failover.normal_avg, avg)
       IN  failover' = [pc |-> IF result.raised = "none" THEN "done" ELSE "raised",
                        normal_avg |-> failover.normal_avg,
                        since_failure_start |-> recovery_time,
                        outage_seconds |-> failover.outage_seconds,
                        result |-> result]
    /\ UNCHANGED <<mgr, now, pool_state, task, hist, sel_vars, tier, ctor,
                   verify, raw, ids, lag, classify,
                   capacity, load>>

\* StabilityTestSuite.run, its last stage: `results['failover'] = await
\* self._simulate_failover_test()` has no handler around it, so an exception
\* of the simulation leaves run() and the local `results` is lost.
run_outcome ==
    IF failover.pc = "raised" THEN [raised |-> failover.result.raised]
    ELSE IF failover.pc = "done"
         THEN [raised |-> "none", results |-> [failover |-> failover.result]]
         ELSE [raised |-> "pending"]

FailoverNext ==
    \/ \E avg \in NormalAvgs : baseline_done(avg)
    \/ \E seconds \in OutageTimes : outage_over(seconds)
    \/ \E avg \in RecoveryAvgs, seconds \in MeasureTimes : recovery_done(avg, seconds)

FailoverSpec == FailoverInit /\ [][FailoverNext]_vars

\* -------------------------------------------- the failover report on its own
\* Lines 294-322 for every recovery_time and pair of averages.
RecoveryTimes == {5, 30, 31, 35, 60, 61, 66}

ClassifyInit ==
    /\ ManagerInit
    /\ SelOff
    /\ OffExcept("classify")
    /\ classify \in [pc : {"call"}, recovery_time : RecoveryTimes,
                     normal_avg : NormalAvgs, recovery_avg : RecoveryAvgs]

make_report ==
    /\ classify.pc = "call"
    /\ classify' = [pc |-> "done",
                    recovery_time |-> classify.recovery_time,
                    normal_avg |-> classify.normal_avg,
                    recovery_avg |-> classify.recovery_avg,
                    result |-> failover_result(classify.recovery_time,
                                    classify.normal_avg, classify.recovery_avg)]
    /\ UNCHANGED <<mgr, now, pool_state, task, hist, sel_vars, tier, ctor,
                   verify, raw, ids, lag, failover,
                   capacity, load>>

ClassifySpec == ClassifyInit /\ [][make_report]_vars

\* ------------------------------------------------------ the capacity probe
\* The number of batches of the schedule.
NumBatches == 4

\* for batch_size in [10, 50, 100, 200, 500]: an ascending schedule, here
\* of the sizes 1, 2, 3, ...
batch_sizes == [k \in 1..NumBatches |-> k]

\* range(batch_size)
connection_ids(batch_size) == 0..(batch_size - 1)

\* The successes of the batches added up.
update_max_adding(current, successes) == current + successes

\* max(max_successful_connections, successful_connections)
update_max(current, successes) ==
    IF successes > current THEN successes ELSE current

\* A failed attempt that leaves no entry.
record_error_dropped(errors, batch_size, connection_id) == errors

\* connection_errors.append({'batch_size': ..., 'connection_id': ..., ...}):
\* the list as a bag of <<batch_size, connection_id>>, the order of its
\* entries (the order in which the attempts failed) left out.
record_error(errors, batch_size, connection_id) ==
    errors (+) SetToBag({<<batch_size, connection_id>>})

\* The loop of lines 249-253 given up at a close() that raises.
close_called_until_raise(connections, raising) ==
    IF raising = {} THEN connections ELSE {}

\* The connections on which the loop of lines 249-253 calls close(): all
\* of them, since a close() that raises is swallowed by the bare except.
close_called(connections, raising) == connections

\* tasks = [create_connection(i) for i in range(batch_size)] handed to
\* asyncio.gather: every attempt of batch k is waiting in aiomysql.connect.
launch(c, k) ==
    [c EXCEPT !.pc = "gather", !.b = k,
              !.attempt = [i \in connection_ids(batch_sizes[k]) |-> "pending"],
              !.connections = {},
              !.successful_connections = 0]

\* _test_connection_pool_exhaustion up to its first await.  `open` holds
\* <<batch, connection_id>> for the connections made on which close() has
\* not been called; `log` the outcome of every batch that was gathered.
CapacityInit ==
    /\ ManagerInit
    /\ SelOff
    /\ OffExcept("capacity")
    /\ capacity = launch([pc |-> "start", b |-> 0, attempt |-> <<>>,
                          connections |-> {}, successful_connections |-> 0,
                          max_successful_connections |-> 0,
                          connection_errors |-> EmptyBag,
                          open |-> {}, log |-> <<>>,
                          result |-> [returned |-> FALSE]], 1)

\* create_connection(connection_id) leaves aiomysql.connect: lines 228-240.
attempt_done(connection_id, connected) ==
    /\ capacity.pc = "gather"
    /\ connection_id \in DOMAIN capacity.attempt
    /\ capacity.attempt[connection_id] = "pending"
    /\ capacity' =
        IF connected
        THEN [capacity EXCEPT !.attempt[connection_id] = "connected",
                              !.connections = @ \cup {connection_id},
                              !.successful_connections = @ + 1,
                              !.open = @ \cup {<<capacity.b, connection_id>>}]
        ELSE [capacity EXCEPT !.attempt[connection_id] = "failed",
                              !.connection_errors =
                                    record_error(@, batch_sizes[capacity.b],
                                                 connection_id)]
    /\ UNCHANGED <<mgr, now, pool_state, task, hist, sel_vars, tier, ctor,
                   verify, raw, ids, lag, failover, classify, load>>

\* asyncio.gather returns once every attempt has settled; the maximum is
\* updated and close() is called on the connections, for those in `raising`
\* it raises (lines 244-257, up to the sleep).
gather_returns(raising) ==
    /\ capacity.pc = "gather"
    /\ \A i \in DOMAIN capacity.attempt : capacity.attempt[i] # "pending"
    /\ raising \subseteq capacity.connections
    /\ capacity' =
        [capacity EXCEPT
            !.pc = "settle",
            !.max_successful_connections =
                update_max(@, capacity.successful_connections),
            !.open = @ \ {<<capacity.b, i>> :
                            i \in close_called(capacity.connections, raising)},
            !.log = Append(@, [batch_size |-> batch_sizes[capacity.b],
                               successful_connections |->
                                    capacity.successful_connections,
                               attempt |-> capacity.attempt])]
    /\ UNCHANGED <<mgr, now, pool_state, task, hist, sel_vars, tier, ctor,
                   verify, raw, ids, lag, failover, classify, load>>

\* asyncio.sleep(2) is over: the next batch is launched, or after the last
\* batch the result is returned (lines 257-268; error_details left out).
settle_done ==
    /\ capacity.pc = "settle"
    /\ capacity' =
        IF capacity.b < NumBatches
        THEN launch(capacity, capacity.b + 1)
        ELSE [capacity EXCEPT
                !.pc = "done",
                !.result =
                    [returned |-> TRUE,
                     max_successful_connections |->
                        capacity.max_successful_connections,
                     connection_errors |->
                        BagCardinality(capacity.connection_errors),
                     connection_stability |->
                        IF BagCardinality(capacity.connection_errors) < 10
                        THEN "GOOD" ELSE "POOR"]]
    /\ UNCHANGED <<mgr, now, pool_state, task, hist, sel_vars, tier, ctor,
                   verify, raw, ids, lag, failover, classify, load>>

CapacityNext ==
    \/ \E connection_id \in connection_ids(batch_sizes[NumBatches]),
          connected \in BOOLEAN : attempt_done(connection_id, connected)
    \/ \E raising \in SUBSET connection_ids(batch_sizes[NumBatches]) :
            gather_returns(raising)
    \/ settle_done

CapacitySpec == CapacityInit /\ [][CapacityNext]_vars

\* ------------------------------------------------ the long-running load test
\* Times are in tenths of a second.  test_duration: how long the load runs.
test_duration == 30

\* The four statements of a round (lines 89-94).
queries == <<"SELECT COUNT(*)", "SELECT NOW()", "SHOW STATUS", "SELECT SLEEP">>

\* `await asyncio.sleep(0.1)` after a round, `await asyncio.sleep(1)` after
\* an error.
round_pause == 1

error_pause == 10

\* Lines 133-137: success_rate as the fraction <<numerator, denominator>>,
\* uptime_percentage as a fraction of the same denominator.
load_result(total_requests, error_count) ==
    LET success_rate == IF total_requests > 0
                        THEN <<total_requests - error_count, total_requests>>
                        ELSE <<0, 1>>
    IN  [total_requests |-> total_requests,
         error_count |-> error_count,
         success_rate |-> success_rate,
         uptime_percentage |-> <<success_rate[1] * 100, success_rate[2]>>]

\* The test of line 83 after a round: another round, or continuous_load
\* ends and the result is computed (monitor_resources, which runs beside it
\* and only appends to memory_usage_history, is left out).
after_round(l) ==
    IF l.elapsed < test_duration
    THEN l
    ELSE [l EXCEPT !.pc = "done",
                   !.result = load_result(l.total_requests, l.error_count)]

\* _simulate_long_running_test up to the first await of continuous_load.
LoadInit ==
    /\ ManagerInit
    /\ SelOff
    /\ OffExcept("load")
    /\ load = [pc |-> "round", elapsed |-> 0, error_count |-> 0,
               total_requests |-> 0, result |-> load_result(0, 0)]

\* A round in which the connection and all statements succeed, taking
\* `took`, and the pause after it (lines 84-105).
round_done(took) ==
    /\ load.pc = "round"
    /\ load' = after_round([load EXCEPT
                    !.total_requests = @ + Len(queries),
                    !.elapsed = @ + took + round_pause])
    /\ UNCHANGED <<mgr, now, pool_state, task, hist, sel_vars, tier, ctor,
                   verify, raw, ids, lag, failover, classify, capacity>>

\* A round that raises after `done` statements succeeded (0 when the
\* connection fails), and the pause after it (lines 84-109).
round_failed(done, took) ==
    /\ load.pc = "round"
    /\ load' = after_round([load EXCEPT
                    !.total_requests = @ + done,
                    !.error_count = @ + 1,
                    !.elapsed = @ + took + error_pause])
    /\ UNCHANGED <<mgr, now, pool_state, task, hist, sel_vars, tier, ctor,
                   verify, raw, ids, lag, failover, classify, capacity>>

LoadNext ==
    \/ \E took \in {0, 1} : round_done(took)
    \/ \E done \in 0..(Len(queries) - 1), took \in {0, 1} : round_failed(done, took)

LoadSpec == LoadInit /\ [][LoadNext]_vars

\* ------------------------------------------------------------------ claims
\* Position of candidate `name` in the candidate list av.
IndexIn(av, name) == CHOOSE i \in 1..Len(av) : av[i][1] = name

\* Sum of the weights of the first i candidates.
PrefixWeight[av \in CandidateLists, i \in 0..MaxCands] ==
    IF i = 0 \/ i > Len(av) THEN 0 ELSE PrefixWeight[av, i - 1] + av[i][2]

\* C2: for every candidate list whose weights sum to more than 0 and every
\* draw in [0, W], the replica _weighted_random_selection returns has a
\* weight greater than 0.
C2_NeverSelectsZeroWeight ==
    (sel_out # "none" /\ PrefixWeight[sel_in, Len(sel_in)] > 0)
        => sel_in[IndexIn(sel_in, sel_out)][2] > 0

\* C6: the result of _weighted_random_selection is a member of the candidate
\* list; it is the first candidate if the weights sum to 0, and otherwise
\* the first candidate, in registration order, whose cumulative weight is
\* >= the draw (a draw on a boundary goes to the earlier replica).
C6_SelectionIsFirstReached ==
    sel_out # "none" =>
        LET W == PrefixWeight[sel_in, Len(sel_in)]
            first == CHOOSE i \in 1..Len(sel_in) :
                        /\ PrefixWeight[sel_in, i] >= sel_r
                        /\ \A j \in 1..(i - 1) : PrefixWeight[sel_in, j] < sel_r
        IN  /\ \E i \in 1..Len(sel_in) : sel_in[i][1] = sel_out
            /\ sel_out = IF W = 0 THEN sel_in[1][1] ELSE sel_in[first][1]

\* A draw exactly on the boundary between the first and the second
\* candidate, both with positive weight, was given to the first.
C6_Witness ==
    /\ sel_out # "none"
    /\ Len(sel_in) >= 2
    /\ sel_in[1][2] > 0 /\ sel_in[2][2] > 0
    /\ sel_r = sel_in[1][2]
    /\ sel_out = sel_in[1][1]

\* A replica that has a pool and is marked healthy.
Eligible(s) ==
    /\ s \in Slaves
    /\ \E i \in 1..Len(connection_pools) : connection_pools[i] = s
    /\ s \in DOMAIN server_health
    /\ server_health[s]

\* The eligible replicas with their weights, in registration order.
EligibleList ==
    LET pairs == [i \in 1..NumSlaves |-> <<SlaveNames[i], slave_weights[i]>>]
        Test(p) == Eligible(p[1])
    IN  SelectSeq(pairs, Test)

\* The first candidate of av whose cumulative weight is >= r; the first
\* candidate if all weights are 0.
RECURSIVE CumulativeUpTo(_, _)
CumulativeUpTo(av, i) == IF i = 0 THEN 0 ELSE CumulativeUpTo(av, i - 1) + av[i][2]

FirstReached(av, r) ==
    IF CumulativeUpTo(av, Len(av)) = 0 THEN av[1][1]
    ELSE av[CHOOSE i \in 1..Len(av) :
                /\ CumulativeUpTo(av, i) >= r
                /\ \A j \in 1..(i - 1) : CumulativeUpTo(av, j) < r][1]

\* Task t, idle, makes a call of operation o in this step.
Calls(t, o) ==
    /\ task[t].pc = "idle"
    /\ task'[t] # task[t]
    /\ task'[t].op = o

MasterPooled == \E i \in 1..Len(connection_pools) : connection_pools[i] = "master"

\* C1: when a replica is healthy and pooled, the connection
\* get_slave_connection yields is leased from the pool of a replica that is
\* healthy and pooled at that moment (never the primary's); the primary is
\* reached by get_slave_connection only when no replica is eligible.
C1_ReadsFromEligibleReplica ==
    [][\A t \in Tasks :
        (Calls(t, "get_slave_connection") /\ task'[t].pc = "block") =>
            /\ leased'[task'[t].conn] = leased[task'[t].conn] + 1
            /\ IF \E s \in Slaves : Eligible(s)
               THEN Eligible(task'[t].conn) /\ task'[t].conn # "master"
               ELSE task'[t].conn = "master"]_vars

\* A read holds a connection of replica slave_2 chosen by weight while
\* slave_1 has a pool too but is marked unhealthy.
C1_Witness ==
    \E t \in Tasks :
        /\ task[t].pc = "block" /\ task[t].op = "get_slave_connection"
        /\ task[t].via = "weighted" /\ task[t].conn = "slave_2"
        /\ has_pool("slave_1") /\ ~DictGet(server_health, "slave_1")

\* C3 (as claimed): if no replica is eligible, get_slave_connection always
\* yields a connection leased from the primary's pool and logs the
\* degraded-mode warning; it does not fail with an error.
C3_FallbackAlwaysYieldsPrimary ==
    [][\A t \in Tasks :
        (Calls(t, "get_slave_connection") /\ ~(\E s \in Slaves : Eligible(s))) =>
            /\ task'[t].pc = "block"
            /\ task'[t].conn = "master"
            /\ task'[t].warned]_vars

\* C3 (amended): if no replica is eligible, get_slave_connection logs the
\* degraded-mode warning and then either yields a connection leased from
\* the primary's pool, which exists, or fails with an error without leasing
\* anything; it fails whenever the primary has no pool.
C3_FallbackToPrimaryOrError ==
    [][\A t \in Tasks :
        (Calls(t, "get_slave_connection") /\ ~(\E s \in Slaves : Eligible(s))) =>
            /\ task'[t].warned
            /\ \/ /\ task'[t].pc = "block"
                  /\ task'[t].conn = "master"
                  /\ MasterPooled
                  /\ leased' = [leased EXCEPT !["master"] = @ + 1]
               \/ /\ task'[t].pc = "idle"
                  /\ task'[t].outcome = "error"
                  /\ task'[t].conn = "none"
                  /\ leased' = leased]_vars

\* A read fell back to the primary: it holds a primary connection and the
\* warning was logged, while a replica has a pool but is unhealthy.
C3_Witness ==
    \E t \in Tasks :
        /\ task[t].pc = "block" /\ task[t].op = "get_slave_connection"
        /\ task[t].conn = "master" /\ task[t].warned
        /\ \E s \in Slaves : has_pool(s)
        /\ ~(\E s \in Slaves : Eligible(s))

\* C4: get_master_connection (and with it execute_write_query and
\* execute_transaction) leases from the primary's pool only, whatever the
\* health and weights are; when the primary has no pool it fails with an
\* error and leases from no pool.
C4_WritesUseThePrimaryOnly ==
    [][\A t \in Tasks :
        Calls(t, "get_master_connection") =>
            /\ \A n \in Slaves : leased'[n] = leased[n]
            /\ \/ /\ MasterPooled
                  /\ task'[t].pc = "block"
                  /\ task'[t].conn = "master"
                  /\ leased'["master"] = leased["master"] + 1
               \/ /\ task'[t].pc = "idle"
                  /\ task'[t].outcome = "error"
                  /\ task'[t].conn = "none"
                  /\ leased'["master"] = leased["master"]]_vars

\* A write failed because the primary has no pool although a healthy
\* replica has one.
C4_Witness ==
    \E t \in Tasks :
        /\ task[t].op = "get_master_connection" /\ task[t].outcome = "error"
        /\ ~MasterPooled
        /\ \E s \in Slaves : Eligible(s)

\* C5: with an eligible replica, get_slave_connection(prefer_server) leases
\* from prefer_server's pool when prefer_server names an eligible replica;
\* when it is None, names no replica or names a replica that is not
\* eligible, it leases from the replica the weighted selection gives for
\* some draw in [0, W] over the eligible replicas.
C5_PreferredElseWeighted ==
    [][\A t \in Tasks :
        (/\ Calls(t, "get_slave_connection")
         /\ task'[t].pc = "block"
         /\ \E s \in Slaves : Eligible(s)) =>
            IF Eligible(task'[t].prefer)
            THEN task'[t].conn = task'[t].prefer
            ELSE \E r \in 0..CumulativeUpTo(EligibleList, Len(EligibleList)) :
                    task'[t].conn = FirstReached(EligibleList, r)]_vars

\* A read asked for slave_2, which is eligible, and holds a slave_2
\* connection although slave_1 is eligible too and comes first.
C5_Witness ==
    \E t \in Tasks :
        /\ task[t].pc = "block" /\ task[t].op = "get_slave_connection"
        /\ task[t].prefer = "slave_2" /\ task[t].conn = "slave_2"
        /\ Eligible("slave_1") /\ Eligible("slave_2")

\* C7: once every caller's block has exited (no task is inside a call), no
\* pool holds a leased connection: each lease went back to its pool.
C7_NoLeaseOutlivesItsBlock ==
    (\A t \in Tasks : task[t].pc = "idle") => \A n \in Nodes : leased[n] = 0

C8_UnforcedPassOncePerInterval ==
    [][\A t \in Tasks :
        (/\ Calls(t, "health_check")
         /\ task'[t].pc = "probing"
         /\ ~task'[t].force) =>
            \/ unforced_pass = -1
            \/ now - unforced_pass >= health_check_interval]_vars

\* Task t is in a probing pass and its current probe ends in this step.
ProbeEnds(t) == task[t].pc = "probing" /\ task'[t] # task[t]

PooledNodes == {connection_pools[i] : i \in 1..Len(connection_pools)}

\* The step wrote the outcome of a probe of node n and nothing else: n is
\* healthy (a replica with weight 0.8, 1.0 or 1.2) or unhealthy (a replica
\* with weight 0); no other node's health or weight changed.
WroteOwnOutcome(n) ==
    /\ n \in DOMAIN server_health'
    /\ \A m \in Nodes \ {n} :
        /\ (m \in DOMAIN server_health') = (m \in DOMAIN server_health)
        /\ m \in DOMAIN server_health => server_health'[m] = server_health[m]
    /\ \A i \in 1..NumSlaves :
        IF SlaveNames[i] = n
        THEN IF server_health'[n] THEN slave_weights'[i] \in {4, 5, 6}
                                  ELSE slave_weights'[i] = 0
        ELSE slave_weights'[i] = slave_weights[i]

\* C10: a failed probe never aborts the pass and is never raised to the
\* caller (a pass ends early only by the RuntimeError of a dict that changed
\* size under the loop); each probe updates the health and weight of its
\* own node only; and when the pass returns, every node that has a pool has
\* been probed in it.
C10_EveryPooledNodeProbed ==
    [][\A t \in Tasks : ProbeEnds(t) =>
        /\ WroteOwnOutcome(task[t].cur)
        /\ task'[t].outcome = "error" => Len(connection_pools) # task[t].used
        /\ (task'[t].pc = "idle" /\ task'[t].outcome = "returned") =>
                PooledNodes \subseteq (task[t].probed \cup {task[t].cur})]_vars

\* A pass returned after the probe of the primary, the first pool, had
\* failed: the primary is pooled and unhealthy, and both replicas, probed
\* after it, carry what their own probes gave: slave_1 healthy with weight
\* 1.2, slave_2 unhealthy with weight 0.
C10_Witness ==
    \E t \in Tasks :
        /\ task[t].op = "health_check" /\ task[t].outcome = "returned"
        /\ connection_pools = <<"master", "slave_1", "slave_2">>
        /\ server_health = [n \in Nodes |-> n = "slave_1"]
        /\ slave_weights = <<6, 0>>

\* C11: within a pass the nodes are probed in parallel: while a pass runs,
\* the probe of every node of the pass that has not been probed yet is in
\* flight, so no probe waits for the probe of another node to end.
C11_ProbesRunInParallel ==
    \A t \in Tasks :
        (task[t].pc = "probing" /\ Len(connection_pools) = task[t].used) =>
            \A n \in PooledNodes : n \notin task[t].probed => n \in in_flight(t)

C13_EmptyRegistryRejected ==
    (ctor.pc = "done" /\ ctor.arg = <<>>) => ctor.manager.raised = "ConfigError"

\* C14: _read_and_verify returns a boolean, never an exception; it returns
\* true exactly when no connection or query error occurred and the replica
\* holds a row for the id whose payload equals the expected payload and
\* whose checksum equals the checksum of (id, expected payload).
C14_TrueIffRowMatches ==
    verify.pc = "done" =>
        /\ verify.returned \in BOOLEAN
        /\ verify.returned =
            (/\ verify.error = "none"
             /\ Len(verify.row) = 2
             /\ verify.row[1] = verify.expected_data
             /\ verify.row[2] = md5(verify.test_id \o verify.expected_data))

\* The replica holds the expected payload "abc" for id "t1" with the
\* checksum of the string "t1abc", and true was returned.
C14_Witness ==
    /\ verify.pc = "done"
    /\ verify.error = "none"
    /\ verify.test_id = <<"t", "1">>
    /\ verify.expected_data = <<"a", "b", "c">>
    /\ verify.row = << <<"a", "b", "c">>, md5(<<"t">> \o <<"1", "a", "b", "c">>) >>
    /\ verify.returned

\* The cases whose write succeeded so far, in the order of the run.
WrittenCases ==
    LET IsWritten(e) == e[1] = "write" /\ e[3]
        ws == SelectSeq(raw.log, IsWritten)
    IN  [n \in 1..Len(ws) |-> ws[n][2]]

\* Observations one written case makes: one per (delay, replica) pair.
PerCase == Len(delays) * Len(suite_slave_configs)

\* C15: a case whose write fails records no observation and the run goes
\* on to the remaining cases; the observations are those of the written
\* cases in the order of the run, one per (delay, replica) pair in schedule
\* order; observations are only ever appended, one at a time; at the end
\* total_tests = written cases x 4 delays x replicas and consistent_tests
\* <= total_tests.
C15_OneObservationPerPollOfWrittenCases ==
    /\ [](raw.pc # "off" =>
            LET res == raw.consistency_results
                R == Len(suite_slave_configs)
            IN  /\ \A n \in 1..Len(res) :
                    /\ (n - 1) \div PerCase + 1 <= Len(WrittenCases)
                    /\ res[n].test_case = WrittenCases[(n - 1) \div PerCase + 1]
                    /\ res[n].delay_seconds = delays[((n - 1) % PerCase) \div R + 1]
                    /\ res[n].slave_index = (n - 1) % R
                /\ raw.pc \in {"write", "read", "cleanup", "done"}
                /\ raw.pc = "done" =>
                    /\ \A j \in 0..(test_cases - 1) :
                        \E q \in 1..Len(raw.log) :
                            raw.log[q][1] = "write" /\ raw.log[q][2] = j
                    /\ Len(delays) = 4
                    /\ raw.total_tests = Len(WrittenCases) * 4 * R
                    /\ raw.total_tests = Len(res)
                    /\ raw.consistent_tests <= raw.total_tests)
    /\ [][raw.pc # "off" =>
            LET old == raw.consistency_results
                new == raw'.consistency_results
            IN  \/ new = old
                \/ Len(new) = Len(old) + 1 /\ SubSeq(new, 1, Len(old)) = old]_vars

\* The run ended; the write of case 0 failed and case 1 recorded its four
\* observations, the first inconsistent and the last consistent.
C15_Witness ==
    /\ raw.pc = "done"
    /\ raw.log[1] = <<"write", 0, FALSE>>
    /\ raw.total_tests = 4 /\ raw.consistent_tests < 4
    /\ ~raw.consistency_results[1].consistent
    /\ raw.consistency_results[4].consistent
    /\ raw.consistency_results[4].test_case = 1

\* Case j attempted a deletion after everything else it did and before
\* anything a later case did.
DeletedInTime(j) ==
    \E q \in 1..Len(raw.log) :
        /\ raw.log[q][1] = "delete" /\ raw.log[q][2] = j
        /\ \A x \in 1..Len(raw.log) :
            /\ (raw.log[x][2] = j /\ x # q) => x < q
            /\ raw.log[x][2] > j => x > q

\* C16 (as claimed): for every case, whatever its outcome, a deletion of
\* its canary is attempted after its last poll and before the write of the
\* next case; a failed deletion does not stop the run.
C16_EveryCaseCleanedUp ==
    raw.pc # "off" =>
        /\ raw.pc # "raised"
        /\ \A j \in 0..(raw.i - 1) : DeletedInTime(j)

\* C16 (amended): for every case whose write succeeded, whatever its polls
\* gave, a deletion of its canary is attempted after its last poll and
\* before the write of the next case, and a failed deletion does not stop
\* the run; a case whose write failed is abandoned without a deletion.
C16_WrittenCasesCleanedUp ==
    raw.pc # "off" =>
        /\ raw.pc # "raised"
        /\ \A j \in 0..(raw.i - 1) :
            IF \E n \in 1..Len(WrittenCases) : WrittenCases[n] = j
            THEN DeletedInTime(j)
            ELSE ~(\E q \in 1..Len(raw.log) :
                        raw.log[q][1] = "delete" /\ raw.log[q][2] = j)

\* The deletion of case 0 failed after its four polls, none consistent, and
\* case 1 has been written.
C16_Witness ==
    /\ raw.pc = "read" /\ raw.i = 1
    /\ Len(raw.log) = 7
    /\ raw.log[1] = <<"write", 0, TRUE>>
    /\ \A q \in 2..5 : raw.log[q] = <<"poll", 0, FALSE>>
    /\ raw.log[6] = <<"delete", 0, FALSE>>
    /\ raw.log[7] = <<"write", 1, TRUE>>

\* C17: canary ids are globally unique: no case, of either test and of any
\* run, sequential or concurrent, is given the id of a canary record that
\* another case wrote.
C17_CanaryIdsUnique ==
    ids.pc = "on" =>
        \A e1, e2 \in ids.issued : (e1[2] = e2[2] /\ e1[3]) => e1 = e2

\* The samples recorded for case i and replica sl.
SamplesOf(i, sl) ==
    {n \in 1..Len(lag.lag_measurements) :
        /\ lag.lag_measurements[n].test_case = i
        /\ lag.lag_measurements[n].slave_index = sl}

\* How the polling of case i and replica sl ended, if it has.
OutcomesOf(i, sl) ==
    {lag.outcomes[n][3] : n \in {m \in 1..Len(lag.outcomes) :
        lag.outcomes[m][1] = i /\ lag.outcomes[m][2] = sl}}

\* C18: every lag sample is non-negative; there is at most one sample per
\* (case, replica); a sample is recorded only by a poll that matched, which
\* is the first to match because it ends the polling of that replica; a
\* replica whose polling ended at the ceiling without a match has no
\* sample; with no sample at all avg, min and max are 0.
C18_LagSamplesOnlyFromFirstMatch ==
    /\ [](lag.pc # "off" =>
            /\ \A n \in 1..Len(lag.lag_measurements) :
                lag.lag_measurements[n].lag_seconds >= 0
            /\ \A i \in 0..(lag_cases - 1), sl \in 0..(Len(suite_slave_configs) - 1) :
                /\ Cardinality(SamplesOf(i, sl)) <= 1
                /\ SamplesOf(i, sl) # {} <=> OutcomesOf(i, sl) = {"matched"}
                /\ "ceiling" \in OutcomesOf(i, sl) => SamplesOf(i, sl) = {}
                /\ (lag.pc = "poll" /\ lag.i = i /\ lag.slave_idx = sl) =>
                        OutcomesOf(i, sl) = {}
            /\ (lag.pc = "done" /\ lag.lag_measurements = <<>>) =>
                /\ lag.statistics.avg_lag = <<0, 1>>
                /\ lag.statistics.max_lag = 0
                /\ lag.statistics.min_lag = 0)
    /\ [][(lag.pc # "off" /\ lag'.lag_measurements # lag.lag_measurements) =>
            /\ lag.pc = "poll"
            /\ lag'.lag_measurements = Append(lag.lag_measurements,
                    [slave_index |-> lag.slave_idx,
                     lag_seconds |-> lag'.since_write,
                     test_case |-> lag.i])
            /\ lag'.since_write >= lag.since_write
            /\ lag'.pc # "poll" \/ lag'.slave_idx # lag.slave_idx]_vars

\* The test ended: the replica never matched case 0 within the ceiling and
\* matched case 1 at its first poll with lag 0; the only sample is that of
\* case 1.
C18_Witness ==
    /\ lag.pc = "done"
    /\ lag.outcomes = << <<0, 0, "ceiling">>, <<1, 0, "matched">> >>
    /\ lag.lag_measurements =
            << [slave_index |-> 0, lag_seconds |-> 0, test_case |-> 1] >>
    /\ lag.statistics.avg_lag = <<0, 1>>

\* C19: recovery_time_seconds is the span of the outage window only, from
\* the start of the outage to its end; the recovery measurement that
\* follows is not part of it.
C19_RecoveryTimeIsOutageWindow ==
    failover.pc = "done" =>
        failover.result.recovery_time_seconds = failover.outage_seconds

\* C20: when a report is made (the baseline average is not 0), with impact
\* the absolute relative difference of the averages in percent: the
\* quality is EXCELLENT exactly when recovery time <= 30 and impact <= 20,
\* GOOD exactly when that fails and recovery time <= 60 and impact <= 40,
\* NEEDS_IMPROVEMENT otherwise; recovery_success is recovery time <= 30;
\* averages of 10 and 11 give an impact of 10 percent.
C20_QualityTiers ==
    classify.pc = "done" =>
        LET rt == classify.recovery_time
            b == classify.normal_avg
            diff == IF b >= classify.recovery_avg THEN b - classify.recovery_avg
                    ELSE classify.recovery_avg - b
            \* impact = diff / b * 100
            excellent == rt <= 30 /\ diff * 100 <= 20 * b
            good == ~excellent /\ rt <= 60 /\ diff * 100 <= 40 * b
            res == classify.result
        IN  /\ res.raised = "none" <=> b # 0
            /\ res.raised = "none" =>
                /\ res.recovery_quality = "EXCELLENT" <=> excellent
                /\ res.recovery_quality = "GOOD" <=> good
                /\ res.recovery_quality = "NEEDS_IMPROVEMENT" <=> (~excellent /\ ~good)
                /\ res.recovery_success <=> rt <= 30
                /\ res.performance_impact_percent[1] =
                        diff * 100 * (res.performance_impact_percent[2] \div b)
                /\ res.performance_impact_percent[2] = b
                /\ (b = 10 /\ classify.recovery_avg = 11) =>
                        res.performance_impact_percent[1] =
                            10 * res.performance_impact_percent[2]

\* Recovery took 30 s and the replica is 20 percent slower than the
\* baseline (10 ms against 12 ms): the quality is EXCELLENT.
C20_Witness ==
    /\ classify.pc = "done"
    /\ classify.recovery_time = 30
    /\ classify.normal_avg = 10 /\ classify.recovery_avg = 12
    /\ classify.result.recovery_quality = "EXCELLENT"
    /\ classify.result.recovery_success

\* C21: the failover simulation ends with a result record for every outcome
\* of its two measurement windows, also when the baseline window has no
\* latency sample (average 0); it never ends with an exception that leaves
\* run() without results.
C21_FailureIsARecordedOutcome ==
    failover.pc \in {"done", "raised"} =>
        /\ run_outcome.raised = "none"
        /\ run_outcome.results.failover.recovery_quality
                \in {"EXCELLENT", "GOOD", "NEEDS_IMPROVEMENT"}

\* The attempts of a gathered batch that connected.
ConnectedIn(entry) ==
    {i \in DOMAIN entry.attempt : entry.attempt[i] = "connected"}

\* C22: max_successful_connections is the maximum of the per-batch success
\* counts: it is the count of some gathered batch (0 before the first),
\* no batch has a larger one, that count is the number of connections made
\* in that one batch, and it never exceeds the largest batch size; the
\* returned value is this maximum.
C22_MaxIsLargestSingleBatch ==
    capacity.pc # "off" =>
        LET m == capacity.max_successful_connections
            log == capacity.log
        IN  /\ m <= batch_sizes[NumBatches]
            /\ \A n \in 1..Len(log) :
                /\ log[n].successful_connections = Cardinality(ConnectedIn(log[n]))
                /\ log[n].successful_connections <= m
            /\ IF log = <<>> THEN m = 0
               ELSE \E n \in 1..Len(log) : log[n].successful_connections = m
            /\ capacity.pc = "done" =>
                    capacity.result.max_successful_connections = m

\* The probe returned; every batch but the last made connections, and one
\* batch made more than one: the maximum is below the sum.
C22_Witness ==
    /\ capacity.pc = "done"
    /\ capacity.log[1].successful_connections = 1
    /\ capacity.log[2].successful_connections = 2
    /\ capacity.log[NumBatches].successful_connections = 0
    /\ capacity.result.max_successful_connections = 2

\* Attempt i of a batch of batch_size is recorded once: as a connection
\* with no error entry, or as one error entry.
RecordedOnce(status, batch_size, i) ==
    LET entries == CopiesIn(<<batch_size, i>>, capacity.connection_errors)
    IN  /\ status = "connected" => entries = 0
        /\ status = "failed" => entries = 1
        /\ status = "pending" => entries = 0

\* C23: the batches run in schedule order and all of them run before the
\* probe returns, whatever fails; all attempts of a batch are pending
\* together at its launch and the batch is gathered only when none is
\* pending; every attempt is recorded once, as a success or as one error
\* entry, so successes + errors of a gathered batch = its size.
C23_FailedAttemptsAreRecordedNotFatal ==
    /\ [](capacity.pc # "off" =>
            LET log == capacity.log
            IN  /\ capacity.pc \in {"gather", "settle", "done"}
                /\ \A n \in 1..Len(log) :
                    /\ log[n].batch_size = batch_sizes[n]
                    /\ DOMAIN log[n].attempt = connection_ids(batch_sizes[n])
                    /\ \A i \in DOMAIN log[n].attempt :
                        /\ log[n].attempt[i] \in {"connected", "failed"}
                        /\ RecordedOnce(log[n].attempt[i], batch_sizes[n], i)
                    /\ log[n].successful_connections
                        + Cardinality({i \in DOMAIN log[n].attempt :
                                        log[n].attempt[i] = "failed"})
                            = batch_sizes[n]
                /\ capacity.pc = "gather" =>
                    /\ Len(log) = capacity.b - 1
                    /\ \A i \in DOMAIN capacity.attempt :
                        RecordedOnce(capacity.attempt[i],
                                     batch_sizes[capacity.b], i)
                /\ capacity.pc = "settle" => Len(log) = capacity.b
                /\ capacity.pc = "done" =>
                    /\ Len(log) = NumBatches
                    /\ capacity.result.connection_errors =
                        Cardinality({<<n, i>> \in (1..NumBatches)
                                        \X connection_ids(batch_sizes[NumBatches]) :
                                     /\ i \in DOMAIN log[n].attempt
                                     /\ log[n].attempt[i] = "failed"}))
    /\ [][capacity.pc # "off" /\ capacity'.b # capacity.b =>
            /\ capacity'.b = capacity.b + 1
            /\ DOMAIN capacity'.attempt = connection_ids(batch_sizes[capacity'.b])
            /\ \A i \in DOMAIN capacity'.attempt :
                    capacity'.attempt[i] = "pending"]_vars

\* The probe returned although the only attempt of the first batch and one
\* attempt of the second failed; the attempts after them connected.
C23_Witness ==
    /\ capacity.pc = "done"
    /\ capacity.log[1].successful_connections = 0
    /\ capacity.log[2].attempt[0] = "failed"
    /\ capacity.log[2].attempt[1] = "connected"
    /\ capacity.log[3].successful_connections = 3
    /\ capacity.result.connection_errors = 2

\* C25: a connection that was made and on which close() has not been called
\* exists only while its own batch is being gathered; a batch is launched,
\* and the probe returns, only from the settle delay that follows the
\* closing of the batch before.
C25_ClosedBeforeNextBatch ==
    /\ [](capacity.pc # "off" =>
            \A c \in capacity.open :
                capacity.pc = "gather" /\ c[1] = capacity.b)
    /\ [][(capacity.pc # "off"
            /\ (capacity'.b # capacity.b
                \/ (capacity'.pc = "done" /\ capacity.pc # "done"))) =>
            /\ capacity.pc = "settle"
            /\ capacity.open = {}]_vars

\* The second batch has just been launched after the first one made its
\* connection: that connection is closed.
C25_Witness ==
    /\ capacity.pc = "gather" /\ capacity.b = 2
    /\ capacity.log[1].successful_connections = 1
    /\ \A i \in DOMAIN capacity.attempt : capacity.attempt[i] = "pending"
    /\ capacity.open = {}

\* Task t's step is the end of a pool creation of initialize_pools.
CreateEnds(t) == task[t].pc = "creating" /\ task'[t] # task[t]

\* Task t's step belongs to close_all_pools.
CloseStep(t) == task'[t].op = "close_all_pools" /\ task'[t] # task[t]

\* Task t's step belongs to one of the routing operations.
RoutingStep(t) ==
    /\ task'[t] # task[t]
    /\ {task[t].op, task'[t].op} \cap
            {"get_master_connection", "get_slave_connection",
             "get_any_connection"} # {}
    /\ task[t].pc \in {"idle", "any_except", "block", "any_rethrow"}
    /\ task'[t].op \in {"get_master_connection", "get_slave_connection",
                        "get_any_connection"}

\* C24 (as claimed): server_health and slave_weights change only in a step
\* that ends a probe of health_check.
C24_OnlyHealthCheckWrites ==
    [][(server_health' # server_health \/ slave_weights' # slave_weights) =>
            \E t \in Tasks : ProbeEnds(t)]_vars

\* C24 (amended): the routing operations change neither server_health nor
\* slave_weights; slave_weights changes only when a probe of health_check
\* ends, and only at the probed replica; server_health changes only when a
\* probe ends (the probed node's flag), when a pool creation of
\* initialize_pools ends (that node's flag: created or not) or in
\* close_all_pools (the dict is cleared).
C24_WritersOfHealthAndWeight ==
    [][/\ \A t \in Tasks :
            RoutingStep(t) => UNCHANGED <<server_health, slave_weights>>
       /\ slave_weights' # slave_weights =>
            \E t \in Tasks :
                /\ ProbeEnds(t)
                /\ \A i \in 1..NumSlaves :
                    slave_weights'[i] # slave_weights[i] =>
                        task[t].cur = server_name(i)
       /\ server_health' # server_health =>
            \E t \in Tasks :
                \/ /\ ProbeEnds(t)
                   /\ \E ok \in BOOLEAN :
                        server_health' = DictPut(server_health, task[t].cur, ok)
                \/ /\ CreateEnds(t)
                   /\ \E created \in BOOLEAN :
                        server_health' = DictPut(server_health,
                                            server_name(task[t].pos), created)
                \/ /\ CloseStep(t)
                   /\ server_health' = EmptyDict]_vars

\* The caller holds a connection of slave_2 that get_slave_connection chose
\* while slave_1 was marked unhealthy with weight 0 by a probe and slave_2
\* had the weight 0.8 of a slow probe.
C24_Witness ==
    /\ task[Caller].pc = "block"
    /\ task[Caller].op = "get_slave_connection"
    /\ task[Caller].conn = "slave_2"
    /\ DictGet(server_health, "slave_2")
    /\ "slave_1" \in DOMAIN server_health /\ ~server_health["slave_1"]
    /\ slave_weights = <<0, 4>>

\* C26: a replica that is marked healthy has one of the weights 0.8, 1.0
\* and 1.2, and no candidate of get_slave_connection has the weight 0.
C26_HealthyReplicaHasPositiveWeight ==
    /\ \A i \in 1..NumSlaves :
            DictGet(server_health, server_name(i)) => slave_weights[i] \in {4, 5, 6}
    /\ \A k \in 1..Len(available_slaves) : available_slaves[k][2] > 0

\* C27: when the block of a get_any_connection use ends, the use is over:
\* the block's exception, if any, has reached the caller as it is; the
\* generator does not go on to get_master_connection and never yields a
\* second connection.
C27_BlockExceptionPropagates ==
    /\ [][\A t \in Tasks :
            (/\ task[t].pc = "block"
             /\ task[t].op = "get_any_connection"
             /\ task'[t] # task[t]) =>
                /\ task'[t].pc = "idle"
                /\ task'[t].outcome \in {"returned", "raised"}]_vars
    /\ [](\A t \in Tasks : task[t].outcome # "runtime_error")

\* C28: a health_check pass that is not throttled and returns has measured
\* every node that initialize_pools registered, also a node that is marked
\* unhealthy because its pool could not be created, so that such a node is
\* marked healthy again by a pass in which it answers.
C28_EveryRegisteredNodeRemeasured ==
    [][\A t \in Tasks :
        (/\ ProbeEnds(t)
         /\ task'[t].pc = "idle"
         /\ task'[t].outcome = "returned") =>
            \A n \in DOMAIN server_health :
                n \in task[t].probed \cup {task[t].cur}]_vars

\* The longest a single poll takes.
LongestRead == CHOOSE v \in ReadTimes : \A w \in ReadTimes : w <= v

C30_RatesWithinRange ==
    load.pc = "done" =>
        LET res == load.result
        IN  /\ res.error_count <= res.total_requests
            /\ 0 <= res.success_rate[1]
            /\ res.success_rate[1] <= res.success_rate[2]
            /\ 0 <= res.uptime_percentage[1]
            /\ res.uptime_percentage[1] <= 100 * res.uptime_percentage[2]

====
